---- MODULE Spec2Model ----
(***************************************************************************)
(* Model of the remote-commander HTTP client (HttpClient, the shared       *)
(* httpClient instance) and of the operation facade of tools/filesystem.   *)
(* Every process is one caller running one operation; a step of a process  *)
(* is the code between two awaits.                                         *)
(***************************************************************************)
EXTENDS Integers, Sequences, FiniteSets, TLC

\* ------------------------------------------------------------------ bounds
MaxCalls == 2          \* operations one caller starts
MaxPathLen == 2        \* characters in a requested path
MaxBatch == 2          \* paths in one readMultipleFiles call
MaxProviderChanges == 1 \* times the configuration provider changes its values

Procs == {"A", "B"}

\* --------------------------------------------------------- strings, paths
\* A path is a sequence of characters, so that startsWith and string
\* concatenation are computed, not assumed.
Chars == {"/", "b"}

RECURSIVE SeqsUpTo(_)
SeqsUpTo(n) ==
  IF n = 0 THEN {<<>>}
  ELSE LET S == SeqsUpTo(n - 1)
       IN S \cup {Append(s, c) : s \in {t \in S : Len(t) = n - 1}, c \in Chars}

Paths == SeqsUpTo(MaxPathLen)

\* String.prototype.startsWith
StartsWith(s, prefix) ==
  /\ Len(prefix) <= Len(s)
  /\ SubSeq(s, 1, Len(prefix)) = prefix

\* ------------------------------------------------------------ JSON values
JUndef == [t |-> "undef"]
JStr(s) == [t |-> "str", s |-> s]
JArr(xs) == [t |-> "arr", items |-> xs]
JObj(d) == [t |-> "obj", data |-> d]          \* an object; data = JUndef when it has no data field
JEntry(name, type) == [t |-> "entry", name |-> name, type |-> type]
JFmt(parts) == [t |-> "fmt", parts |-> parts] \* a string built by a template literal

\* JavaScript truthiness
Truthy(v) ==
  CASE v.t = "undef" -> FALSE
    [] v.t = "str" -> v.s # ""
    [] OTHER -> TRUE

\* a || b
OrElse(a, b) == IF Truthy(a) THEN a ELSE b

\* response.data?.data
DataOf(v) == IF v.t = "obj" THEN v.data ELSE JUndef

Entries == <<JEntry("a.txt", "file"), JEntry("sub", "dir"), JStr("raw"), JEntry("n", "")>>

Bodies ==
  { JStr(""), JStr("c"), JObj(JStr("")), JObj(JStr("c")), JObj(JUndef),
    JArr(Entries), JObj(JArr(Entries)) }

\* --------------------------------------------------------------- messages
\* An error message is the sequence of the pieces the code concatenates.
NoMsg == <<>>
ConfigIncompleteMsg ==
  <<"HTTP client configuration incomplete. Please set serverUrl and basePath in config.">>
NotInitializedMsg == <<"HTTP client not initialized">>
UrlNotImplementedMsg ==
  <<"URL reading not implemented in remote commander. Please use local paths only.">>
MoveNotImplementedMsg == <<"Move file not yet implemented in remote commander">>
NotAFunctionMsg == <<"items.map is not a function">>

\* -------------------------------------------------------------- operations
ClientOps ==
  { "readFile", "writeFile", "listDirectory", "searchFiles", "searchCode",
    "createDirectory", "getFileInfo", "editBlock" }

Endpoint(o) ==
  CASE o = "readFile" -> "read_file"
    [] o = "writeFile" -> "write_file"
    [] o = "listDirectory" -> "list_directory"
    [] o = "searchFiles" -> "search_files"
    [] o = "searchCode" -> "search_code"
    [] o = "createDirectory" -> "create_directory"
    [] o = "getFileInfo" -> "get_file_info"
    [] o = "editBlock" -> "edit_block"

PathField(o) == IF o = "editBlock" THEN "file_path" ELSE "path"

FallbackMsg(o) ==
  CASE o = "readFile" -> <<"Failed to read file">>
    [] o = "writeFile" -> <<"Failed to write file">>
    [] o = "listDirectory" -> <<"Failed to list directory">>
    [] o = "searchFiles" -> <<"Failed to search files">>
    [] o = "searchCode" -> <<"Failed to search code">>
    [] o = "createDirectory" -> <<"Failed to create directory">>
    [] o = "getFileInfo" -> <<"Failed to get file info">>
    [] o = "editBlock" -> <<"Failed to edit block">>

\* ------------------------------------------------------------ configuration
Base1 == <<"/", "b">>
Base2 == <<"b">>

Cfg(s, a, t, b, u, pw) ==
  [serverUrl |-> s, authUrl |-> a, authToken |-> t, basePath |-> b,
   username |-> u, password |-> pw]

\* What configManager.getConfig() may hold; "" and <<>> stand for an absent field.
ProviderConfigs ==
  { Cfg("s", "a", "", Base1, "u", "p"),
    Cfg("s2", "", "tok", Base2, "u", "p"),
    Cfg("s", "", "", Base2, "u", ""),
    Cfg("", "a", "tok", Base1, "u", "p"),
    Cfg("s", "", "", <<>>, "u", "p"),
    Cfg("", "", "", <<>>, "", "") }

Null == [null |-> TRUE]

AccessTokens == {"t1", "t2"}


\* ------------------------------------------------------- HTTP responses
StatusCodes == {200, 204, 404}

StatusStr(code) ==
  CASE code = 200 -> "200" [] code = 204 -> "204" [] code = 404 -> "404"

StatusText(code) ==
  CASE code = 200 -> "OK" [] code = 204 -> "No Content" [] code = 404 -> "Not Found"

\* Response.ok taken for status === 200
ResponseOkOnly200(code) == code = 200

\* Response.ok
ResponseOk(code) == code >= 200 /\ code <= 299

NetFail(m) == [kind |-> "netfail", msg |-> m]
HttpResp(code, parses, body) ==
  [kind |-> "http", status |-> code, parses |-> parses, body |-> body]

JsonParseMsg == "Unexpected end of JSON input"

\* What fetch() followed by response.json() can produce for an API request.
Responses ==
  {NetFail("ECONNREFUSED")}
    \cup {HttpResp(code, TRUE, b) : code \in StatusCodes \cap 200..299, b \in Bodies}
    \cup {HttpResp(code, FALSE, JUndef) : code \in StatusCodes}

\* What the token endpoint can produce.
AuthResponses ==
  {NetFail("ECONNREFUSED")}
    \cup {[kind |-> "http", status |-> 404, token |-> ""]}
    \cup {[kind |-> "http", status |-> 200, token |-> t] : t \in AccessTokens}

\* --------------------------------------------------------------- envelopes
Success(d) == [kind |-> "envelope", success |-> TRUE, data |-> d, error |-> NoMsg]
Failure(m) == [kind |-> "envelope", success |-> FALSE, data |-> JUndef, error |-> m]
Thrown(m) == [kind |-> "raised", error |-> m]
NoResult == [kind |-> "none"]

\* HttpClient.makeRequest, from the resolution of fetch on
makeRequest(resp) ==
  IF resp.kind = "netfail" THEN Failure(<<"Network error: ", resp.msg>>)
  ELSE IF ~ResponseOk(resp.status)
       THEN Failure(<<"HTTP ", StatusStr(resp.status), ": ", StatusText(resp.status)>>)
  ELSE IF ~resp.parses THEN Failure(<<"Network error: ", JsonParseMsg>>)
  ELSE Success(resp.body)

\* validatePath without the startsWith test
validatePathAlwaysPrefix(cfg, requestPath) ==
  cfg.basePath \o (IF StartsWith(requestPath, <<"/">>) THEN <<>> ELSE <<"/">>) \o requestPath

\* HttpClient.validatePath, for an initialized client
validatePath(cfg, requestPath) ==
  IF ~StartsWith(requestPath, cfg.basePath)
  THEN cfg.basePath \o (IF StartsWith(requestPath, <<"/">>) THEN <<>> ELSE <<"/">>) \o requestPath
  ELSE requestPath

\* String.prototype.toUpperCase on the type tags the server uses
ToUpperCase(s) ==
  CASE s = "file" -> "FILE" [] s = "dir" -> "DIR" [] OTHER -> s

\* the callback of items.map in HttpClient.listDirectory
MapItem(item) ==
  IF item.t = "str" THEN item
  ELSE IF item.name # ""
       THEN JFmt(<<"[", (IF item.type # "" THEN ToUpperCase(item.type) ELSE "FILE"), "] ", item.name>>)
  ELSE JStr("[object Object]")

\* HttpClient.readFile after makeRequest
readFileReshape(e) ==
  IF ~e.success THEN e ELSE Success(OrElse(DataOf(e.data), e.data))

\* HttpClient.listDirectory after makeRequest
listDirectoryReshape(e) ==
  IF ~e.success THEN e
  ELSE LET items == OrElse(OrElse(DataOf(e.data), e.data), JArr(<<>>))
       IN IF items.t # "arr" THEN Thrown(NotAFunctionMsg)
          ELSE Success(JArr([i \in 1..Len(items.items) |-> MapItem(items.items[i])]))

\* What the client method o returns (or throws) once makeRequest has returned e
ClientResult(o, e) ==
  CASE o = "readFile" -> readFileReshape(e)
    [] o = "listDirectory" -> listDirectoryReshape(e)
    [] OTHER -> e

\* ------------------------------------------------------------------ facade
Returned(v) == [kind |-> "returned", val |-> v]
Raised(m) == [kind |-> "raised", error |-> m]
Pending == [kind |-> "pending"]
NoOutcome == [kind |-> "none"]

\* the value a facade function returns for a success envelope
FacadeValue(o, e) ==
  CASE o = "readFile" -> OrElse(e.data, JStr(""))
    [] o \in {"listDirectory", "searchFiles"} -> OrElse(e.data, JArr(<<>>))
    [] o \in {"writeFile", "createDirectory"} -> JUndef
    [] OTHER -> e.data

\* the facade's  if (!response.success) throw new Error(response.error || fallback)
FacadeOutcome(o, r) ==
  IF r.kind = "raised" THEN Raised(r.error)
  ELSE IF ~r.success THEN Raised(IF r.error # NoMsg THEN r.error ELSE FallbackMsg(o))
  ELSE Returned(FacadeValue(o, r))

\* readFile without the isUrl branch
ReadFileToUrlNever(isUrlArg) == FALSE

\* readFile's dispatch on isUrl: TRUE when the call goes to readFileFromUrl
ReadFileToUrl(isUrlArg) == isUrlArg

\* the completeness test without its basePath half
ConfigIncompleteServerOnly(sc) == sc.serverUrl = ""

\* HttpClient.init's completeness test
ConfigIncomplete(sc) == sc.serverUrl = "" \/ sc.basePath = <<>>

\* HttpClient.init's test for authenticating
NeedsAuth(c) == c.authToken = "" /\ c.username # "" /\ c.password # ""


\* ------------------------------------------------------------------- state
VARIABLES
  scope,           \* the inputs the run draws from; it never changes
  provider,        \* what configManager.getConfig() returns now
  providerChanges, \* how often it has changed
  config,          \* HttpClient.config of the shared httpClient (Null or a record)
  pc,              \* per caller: the await it is suspended at
  layer,           \* per caller: "facade" (tools/filesystem) or "client" (httpClient method called directly)
  op,              \* per caller: the operation it runs
  isUrl,           \* per caller: readFile's isUrl argument
  args,            \* per caller: the requested paths (one, or the batch of readMultipleFiles)
  results,         \* per caller: readMultipleFiles' results array
  budget,          \* per caller: operations it may still start
  lastReq,         \* per caller: the last request it handed to fetch for the server API
  lastResp,        \* per caller: the answer to that request
  envelope,        \* per caller: what the last makeRequest returned
  clientRes,       \* per caller: what the last HttpClient method call returned or threw
  outcome,         \* per caller: how its operation ended
  authStarted,     \* token requests issued
  authDone,        \* a token request has been answered with a token
  requested,       \* an API request has been issued
  onlyFacade,      \* every operation started so far is a facade function of the eight client operations
  authEverFailed   \* some token request failed

vars ==
  <<scope, provider, providerChanges, config, pc, layer, op, isUrl, args, results, budget,
    lastReq, lastResp, envelope, clientRes, outcome, authStarted, authDone, requested, onlyFacade,
    authEverFailed>>

client == <<config, authStarted, authDone, requested, authEverFailed>>
world == <<scope, provider, providerChanges>>

NoReq == [sent |-> FALSE]
NoResp == [kind |-> "none"]

Req(o, inPath, cfg) ==
  [sent |-> TRUE, endpoint |-> Endpoint(o), field |-> PathField(o), inPath |-> inPath,
   path |-> validatePath(cfg, inPath), basePath |-> cfg.basePath,
   url |-> <<cfg.serverUrl, "/api/commander/", Endpoint(o)>>, token |-> cfg.authToken]

\* -------------------------------------------------------------------- scopes
OnlyA(n) == [p \in Procs |-> IF p = "A" THEN n ELSE 0]

FewResponses == {NetFail("ECONNREFUSED"), HttpResp(404, FALSE, JUndef), HttpResp(200, TRUE, JStr("c"))}
FewPaths == {<<"/">>}
CompleteConfigs == {c \in ProviderConfigs : c.serverUrl # "" /\ c.basePath # <<>>}

\* one caller, one operation after the other, every configuration
ScopeLifecycle ==
  [budget |-> OnlyA(MaxCalls), providers |-> ProviderConfigs, changes |-> MaxProviderChanges,
   paths |-> FewPaths, responses |-> FewResponses, batch |-> 1]

\* one caller, one operation, every path and every answer of the server
ScopeData ==
  [budget |-> OnlyA(1), providers |-> CompleteConfigs, changes |-> 1,
   paths |-> Paths, responses |-> Responses, batch |-> 1]

\* one caller, one batch, every configuration
ScopeBatch ==
  [budget |-> OnlyA(1), providers |-> ProviderConfigs, changes |-> MaxProviderChanges,
   paths |-> FewPaths, responses |-> FewResponses, batch |-> MaxBatch]

\* two callers, one operation each, in any interleaving, every complete configuration
ScopeConcurrent ==
  [budget |-> [p \in Procs |-> 1], providers |-> CompleteConfigs, changes |-> 1,
   paths |-> FewPaths, responses |-> FewResponses, batch |-> 1]

\* the state after construction of httpClient, before any caller has acted
Constructed(sc) ==
  /\ scope = sc
  /\ budget = sc.budget
  /\ provider \in sc.providers
  /\ providerChanges = 0
  /\ config = Null
  /\ pc = [p \in Procs |-> "idle"]
  /\ layer = [p \in Procs |-> "facade"]
  /\ op = [p \in Procs |-> "none"]
  /\ isUrl = [p \in Procs |-> FALSE]
  /\ args = [p \in Procs |-> <<>>]
  /\ results = [p \in Procs |-> <<>>]
  /\ lastReq = [p \in Procs |-> NoReq]
  /\ lastResp = [p \in Procs |-> NoResp]
  /\ envelope = [p \in Procs |-> NoResult]
  /\ clientRes = [p \in Procs |-> NoResult]
  /\ outcome = [p \in Procs |-> NoOutcome]
  /\ authStarted = 0
  /\ authDone = FALSE
  /\ requested = FALSE
  /\ onlyFacade = TRUE
  /\ authEverFailed = FALSE

Init == Constructed(ScopeLifecycle)
InitData == Constructed(ScopeData)
InitBatch == Constructed(ScopeBatch)
InitConcurrent == Constructed(ScopeConcurrent)

\* the path the caller's current read or operation is about
CurPath(p) == args[p][Len(results[p]) + 1]

\* the operation whose client method p runs (readMultipleFiles reads through readFile)
ClientOp(p) == IF op[p] = "readMultipleFiles" THEN "readFile" ELSE op[p]

\* ------------------------------------------------- how an operation ends
\* one more entry in readMultipleFiles' results; the loop goes on to the next
\* path (readFile -> readFileFromDisk -> httpClient.init()) or returns
PushResult(p, e) ==
  LET rs == Append(results[p], e)
  IN /\ results' = [results EXCEPT ![p] = rs]
     /\ IF Len(rs) < Len(args[p])
        THEN /\ pc' = [pc EXCEPT ![p] = "init_load"]
             /\ UNCHANGED outcome
        ELSE /\ pc' = [pc EXCEPT ![p] = "idle"]
             /\ outcome' = [outcome EXCEPT ![p] = Returned(JArr(rs))]

\* readMultipleFiles without its try/catch: the error leaves the batch
ThrowAborts(p, msg) ==
  /\ pc' = [pc EXCEPT ![p] = "idle"]
  /\ outcome' = [outcome EXCEPT ![p] = Raised(msg)]
  /\ UNCHANGED results

\* an error leaves the operation p runs: readMultipleFiles catches it, any
\* other operation rejects with it
Throw(p, msg) ==
  IF op[p] = "readMultipleFiles"
  THEN PushResult(p, [path |-> CurPath(p), hasContent |-> FALSE, content |-> JUndef,
                      hasError |-> TRUE, error |-> msg])
  ELSE /\ pc' = [pc EXCEPT ![p] = "idle"]
       /\ outcome' = [outcome EXCEPT ![p] = Raised(msg)]
       /\ UNCHANGED results

\* the operation p runs returns v
Finish(p, v) ==
  IF op[p] = "readMultipleFiles"
  THEN PushResult(p, [path |-> CurPath(p), hasContent |-> TRUE, content |-> v,
                      hasError |-> FALSE, error |-> NoMsg])
  ELSE /\ pc' = [pc EXCEPT ![p] = "idle"]
       /\ outcome' = [outcome EXCEPT ![p] = Returned(v)]
       /\ UNCHANGED results

\* the bookkeeping of a caller that starts an operation
Begin(p, l, o, u, a) ==
  /\ pc[p] = "idle"
  /\ budget[p] > 0
  /\ budget' = [budget EXCEPT ![p] = @ - 1]
  /\ layer' = [layer EXCEPT ![p] = l]
  /\ op' = [op EXCEPT ![p] = o]
  /\ isUrl' = [isUrl EXCEPT ![p] = u]
  /\ args' = [args EXCEPT ![p] = a]
  /\ results' = [results EXCEPT ![p] = <<>>]
  /\ lastResp' = [lastResp EXCEPT ![p] = NoResp]
  /\ envelope' = [envelope EXCEPT ![p] = NoResult]
  /\ onlyFacade' = (onlyFacade /\ l = "facade" /\ o \in ClientOps /\ ~u)

\* nothing of the caller's previous operation is left
Fresh(p) ==
  /\ lastReq' = [lastReq EXCEPT ![p] = NoReq]
  /\ clientRes' = [clientRes EXCEPT ![p] = NoResult]

\* ---------------------------------------------------------------- actions
\* the configuration provider is given other values
ProviderChange ==
  /\ providerChanges < scope.changes
  /\ \E c \in scope.providers \ {provider} : provider' = c
  /\ providerChanges' = providerChanges + 1
  /\ UNCHANGED <<scope, client, pc, layer, op, isUrl, args, results, budget, lastReq, lastResp,
                 envelope, clientRes, outcome, onlyFacade>>

\* a facade function of the eight client operations is called, up to its
\* await httpClient.init(); readFile goes to readFileFromUrl when isUrl is set
FacadeCall(p) ==
  \E o \in ClientOps, path \in scope.paths, u \in BOOLEAN :
    /\ u => o = "readFile"
    /\ Begin(p, "facade", o, u, <<path>>)
    /\ Fresh(p)
    /\ IF o = "readFile" /\ ReadFileToUrl(u)
       THEN /\ pc' = [pc EXCEPT ![p] = "idle"]
            /\ outcome' = [outcome EXCEPT ![p] = Raised(UrlNotImplementedMsg)]
       ELSE /\ pc' = [pc EXCEPT ![p] = "init_load"]
            /\ outcome' = [outcome EXCEPT ![p] = Pending]
    /\ UNCHANGED <<client, world>>

\* moveFile
moveFile(p) ==
  /\ Begin(p, "facade", "moveFile", FALSE, <<>>)
  /\ Fresh(p)
  /\ pc' = [pc EXCEPT ![p] = "idle"]
  /\ outcome' = [outcome EXCEPT ![p] = Raised(MoveNotImplementedMsg)]
  /\ UNCHANGED <<client, world>>

\* readMultipleFiles is called, up to the first await httpClient.init()
readMultipleFiles(p) ==
  \E n \in 0..scope.batch : \E a \in [1..n -> scope.paths] :
    /\ Begin(p, "facade", "readMultipleFiles", FALSE, a)
    /\ Fresh(p)
    /\ IF n = 0
       THEN /\ pc' = [pc EXCEPT ![p] = "idle"]
            /\ outcome' = [outcome EXCEPT ![p] = Returned(JArr(<<>>))]
       ELSE /\ pc' = [pc EXCEPT ![p] = "init_load"]
            /\ outcome' = [outcome EXCEPT ![p] = Pending]
    /\ UNCHANGED <<client, world>>

\* httpClient.init() is called directly, up to its await getConfig()
ClientInit(p) ==
  /\ Begin(p, "client", "init", FALSE, <<>>)
  /\ Fresh(p)
  /\ pc' = [pc EXCEPT ![p] = "init_load"]
  /\ outcome' = [outcome EXCEPT ![p] = Pending]
  /\ UNCHANGED <<client, world>>

\* a method of httpClient is called directly: validatePath, then makeRequest up
\* to its await fetch(); both throw when the client holds no configuration
ClientCall(p) ==
  \E o \in ClientOps, path \in scope.paths :
    /\ Begin(p, "client", o, FALSE, <<path>>)
    /\ IF config = Null
       THEN /\ pc' = [pc EXCEPT ![p] = "idle"]
            /\ outcome' = [outcome EXCEPT ![p] = Raised(NotInitializedMsg)]
            /\ clientRes' = [clientRes EXCEPT ![p] = Thrown(NotInitializedMsg)]
            /\ lastReq' = [lastReq EXCEPT ![p] = NoReq]
            /\ UNCHANGED requested
       ELSE /\ pc' = [pc EXCEPT ![p] = "req_wait"]
            /\ outcome' = [outcome EXCEPT ![p] = Pending]
            /\ clientRes' = [clientRes EXCEPT ![p] = NoResult]
            /\ lastReq' = [lastReq EXCEPT ![p] = Req(o, path, config)]
            /\ requested' = TRUE
    /\ UNCHANGED <<config, authStarted, authDone, authEverFailed, world>>

\* init resumes with the provider's configuration: the completeness test, the
\* assignment of this.config, and authenticate() up to its await getConfig()
initResume(p) ==
  /\ pc[p] = "init_load"
  /\ IF ConfigIncomplete(provider)
     THEN /\ Throw(p, ConfigIncompleteMsg)
          /\ UNCHANGED config
     ELSE /\ config' = provider
          /\ IF NeedsAuth(provider)
             THEN /\ pc' = [pc EXCEPT ![p] = "auth_cfg"]
                  /\ UNCHANGED <<outcome, results>>
             ELSE IF op[p] = "init"
                  THEN Finish(p, JUndef)
                  ELSE /\ pc' = [pc EXCEPT ![p] = "call"]
                       /\ UNCHANGED <<outcome, results>>
  /\ UNCHANGED <<layer, op, isUrl, args, budget, lastReq, lastResp, envelope, clientRes, authStarted,
                 authDone, requested, onlyFacade, authEverFailed, world>>

\* authenticate resumes with the authUrl and hands the token request to fetch
authenticate(p) ==
  /\ pc[p] = "auth_cfg"
  /\ pc' = [pc EXCEPT ![p] = "auth_wait"]
  /\ authStarted' = authStarted + 1
  /\ UNCHANGED <<config, layer, op, isUrl, args, results, budget, lastReq, lastResp, envelope,
                 clientRes, outcome, authDone, requested, onlyFacade, authEverFailed, world>>

\* the message authenticate rethrows for a failed token request
AuthFailedMsg(r) ==
  IF r.kind = "netfail" THEN <<"Authentication failed: ", r.msg>>
  ELSE <<"Authentication failed: ", "Keycloak authentication failed: ", StatusStr(r.status),
         " ", StatusText(r.status), " - ", "errorText">>

\* the token request is answered: authenticate stores the token in this.config
\* or throws, and init ends with it
authenticateResume(p) ==
  /\ pc[p] = "auth_wait"
  /\ \E r \in AuthResponses :
       IF r.kind = "netfail" \/ ~ResponseOk(r.status)
       THEN /\ Throw(p, AuthFailedMsg(r))
            /\ authEverFailed' = TRUE
            /\ UNCHANGED <<config, authDone>>
       ELSE /\ config' = [config EXCEPT !.authToken = r.token]
            /\ authDone' = TRUE
            /\ UNCHANGED authEverFailed
            /\ IF op[p] = "init"
               THEN Finish(p, JUndef)
               ELSE /\ pc' = [pc EXCEPT ![p] = "call"]
                    /\ UNCHANGED <<outcome, results>>
  /\ UNCHANGED <<layer, op, isUrl, args, budget, lastReq, lastResp, envelope, clientRes, authStarted,
                 requested, onlyFacade, world>>

\* the facade function resumes after await httpClient.init() and calls the
\* client method: validatePath, then makeRequest up to its await fetch()
Call(p) ==
  /\ pc[p] = "call"
  /\ IF config = Null
     THEN /\ Throw(p, NotInitializedMsg)
          /\ clientRes' = [clientRes EXCEPT ![p] = Thrown(NotInitializedMsg)]
          /\ UNCHANGED <<lastReq, requested>>
     ELSE /\ pc' = [pc EXCEPT ![p] = "req_wait"]
          /\ lastReq' = [lastReq EXCEPT ![p] = Req(ClientOp(p), CurPath(p), config)]
          /\ requested' = TRUE
          /\ UNCHANGED <<clientRes, outcome, results>>
  /\ UNCHANGED <<config, layer, op, isUrl, args, budget, lastResp, envelope, authStarted, authDone,
                 onlyFacade, authEverFailed, world>>

\* the API request is answered: makeRequest builds the envelope, the client
\* method reshapes it, and the facade function returns or throws
Respond(p) ==
  /\ pc[p] = "req_wait"
  /\ \E r \in scope.responses :
       LET e == makeRequest(r)
           cr == ClientResult(ClientOp(p), e)
           fo == FacadeOutcome(ClientOp(p), cr)
       IN /\ lastResp' = [lastResp EXCEPT ![p] = r]
          /\ envelope' = [envelope EXCEPT ![p] = e]
          /\ clientRes' = [clientRes EXCEPT ![p] = cr]
          /\ IF layer[p] = "client"
             THEN /\ pc' = [pc EXCEPT ![p] = "idle"]
                  /\ outcome' = [outcome EXCEPT ![p] =
                                   IF cr.kind = "raised" THEN Raised(cr.error) ELSE Returned(cr)]
                  /\ UNCHANGED results
             ELSE IF fo.kind = "raised" THEN Throw(p, fo.error) ELSE Finish(p, fo.val)
  /\ UNCHANGED <<client, layer, op, isUrl, args, budget, lastReq, onlyFacade, world>>

Next ==
  \/ ProviderChange
  \/ \E p \in Procs : FacadeCall(p)
  \/ \E p \in Procs : moveFile(p)
  \/ \E p \in Procs : readMultipleFiles(p)
  \/ \E p \in Procs : ClientInit(p)
  \/ \E p \in Procs : ClientCall(p)
  \/ \E p \in Procs : initResume(p)
  \/ \E p \in Procs : authenticate(p)
  \/ \E p \in Procs : authenticateResume(p)
  \/ \E p \in Procs : Call(p)
  \/ \E p \in Procs : Respond(p)

Spec == Init /\ [][Next]_vars
SpecData == InitData /\ [][Next]_vars
SpecBatch == InitBatch /\ [][Next]_vars
SpecConcurrent == InitConcurrent /\ [][Next]_vars


\* ================================================================== claims
UrlRead(p) == op[p] = "readFile" /\ isUrl[p]
IsBatch(p) == op[p] = "readMultipleFiles"
CompleteCfg(c) == c.serverUrl # "" /\ c.basePath # <<>>
NoTokenButCredentials(c) == c.authToken = "" /\ c.username # "" /\ c.password # ""

\* ---- C1
C1_Pre ==
  /\ onlyFacade
  /\ providerChanges = 0
  /\ CompleteCfg(provider)
  /\ NoTokenButCredentials(provider)
  /\ ~authEverFailed

\* C1: in a sequential run of facade operations against a configuration with
\* no authToken but with username and password (every token request
\* succeeding), at most one token request is ever issued, and once an API
\* request has been issued exactly one token request has been issued and
\* answered.
C1_AuthenticatesExactlyOnce ==
  C1_Pre => /\ authStarted <= 1
            /\ requested => (authDone /\ authStarted = 1)

\* ---- C2
ConfigWellFormed == config = Null \/ (config.serverUrl # "" /\ config.basePath # <<>>)

\* the step is init's resumption in caller p
InitResumes(p) ==
  /\ pc[p] = "init_load"
  /\ pc'[p] # pc[p] \/ results'[p] # results[p]

InitRejectsIncomplete ==
  \A p \in Procs :
    (InitResumes(p) /\ (provider.serverUrl = "" \/ provider.basePath = <<>>)) =>
      /\ config' = config
      /\ IF IsBatch(p)
         THEN results'[p][Len(results'[p])].error = ConfigIncompleteMsg
         ELSE outcome'[p] = Raised(ConfigIncompleteMsg)

\* C2: the held configuration is always either absent or has both a serverUrl
\* and a basePath, and an init that finds serverUrl or basePath missing raises
\* the configuration error and leaves the held configuration as it was.
C2_ConfigAbsentOrComplete == []ConfigWellFormed /\ [][InitRejectsIncomplete]_vars

\* a configuration is held and a later init was rejected as incomplete
C2_Witness ==
  /\ config # Null
  /\ \E p \in Procs : outcome[p] = Raised(ConfigIncompleteMsg)

\* ---- C3
\* C3: no method of the client ever throws: every call of readFile, writeFile,
\* listDirectory, searchFiles, searchCode, createDirectory, getFileInfo or
\* editBlock ends in an envelope, in every client state.
C3_ClientNeverRaises == \A p \in Procs : clientRes[p].kind # "raised"

\* ---- C4
\* C4: the path field of every transmitted request starts with the basePath
\* the client holds when it transmits, is named file_path for edit_block and
\* path otherwise, and equals the input path when that already starts with
\* basePath.
C4_OutboundPathPrefixed ==
  \A p \in Procs :
    lastReq[p].sent =>
      /\ StartsWith(lastReq[p].path, lastReq[p].basePath)
      /\ StartsWith(lastReq[p].inPath, lastReq[p].basePath) => lastReq[p].path = lastReq[p].inPath
      /\ lastReq[p].field = (IF lastReq[p].endpoint = "edit_block" THEN "file_path" ELSE "path")

\* editBlock transmitted a path that already started with basePath
C4_Witness ==
  \E p \in Procs :
    /\ lastReq[p].sent
    /\ lastReq[p].endpoint = "edit_block"
    /\ StartsWith(lastReq[p].inPath, lastReq[p].basePath)
    /\ lastReq[p].path = lastReq[p].inPath

\* ---- C5
BatchShape ==
  \A p \in Procs :
    IsBatch(p) =>
      /\ outcome[p].kind # "raised"
      /\ Len(results[p]) <= Len(args[p])
      /\ \A k \in 1..Len(results[p]) :
           /\ results[p][k].path = args[p][k]
           /\ results[p][k].hasError # results[p][k].hasContent
           /\ results[p][k].hasError => results[p][k].error # NoMsg
      /\ pc[p] = "idle" => /\ Len(results[p]) = Len(args[p])
                           /\ outcome[p] = Returned(JArr(results[p]))
      /\ pc[p] # "idle" => /\ Len(results[p]) < Len(args[p])
                           /\ outcome[p] = Pending
      /\ pc[p] = "req_wait" => lastReq[p].inPath = args[p][Len(results[p]) + 1]

\* a read of the batch ends: its entry has error set exactly when the read
\* did not end in a success envelope
BatchEntry ==
  \A p \in Procs :
    (IsBatch(p) /\ Len(results'[p]) # Len(results[p])) =>
      /\ Len(results'[p]) = Len(results[p]) + 1
      /\ results'[p][Len(results'[p])].hasError =
           ~(pc[p] = "req_wait" /\ clientRes'[p].kind = "envelope" /\ clientRes'[p].success)

Is2xx(r) == r.kind = "http" /\ r.status \in 200..299

\* C6, every 2xx a success: a network exception yields "Network error: <message>", a
\* non-2xx status yields "HTTP <status>: <statusText>", and every 2xx response
\* yields success with the parsed body.
C6_Every2xxSucceeds ==
  \A p \in Procs :
    lastResp[p].kind # "none" =>
      /\ lastResp[p].kind = "netfail" =>
           envelope[p] = Failure(<<"Network error: ", lastResp[p].msg>>)
      /\ (lastResp[p].kind = "http" /\ ~Is2xx(lastResp[p])) =>
           envelope[p] = Failure(<<"HTTP ", StatusStr(lastResp[p].status), ": ",
                                   StatusText(lastResp[p].status)>>)
      /\ Is2xx(lastResp[p]) => envelope[p].success

\* C6, parsed 2xx a success: as above, but a 2xx response yields success with the parsed
\* body only when its body parses as JSON; a 2xx response whose body does not
\* parse yields the failure envelope "Network error: <parse message>".
C6_ClassifiesOutcome ==
  \A p \in Procs :
    lastResp[p].kind # "none" =>
      /\ lastResp[p].kind = "netfail" =>
           envelope[p] = Failure(<<"Network error: ", lastResp[p].msg>>)
      /\ (lastResp[p].kind = "http" /\ ~Is2xx(lastResp[p])) =>
           envelope[p] = Failure(<<"HTTP ", StatusStr(lastResp[p].status), ": ",
                                   StatusText(lastResp[p].status)>>)
      /\ (Is2xx(lastResp[p]) /\ lastResp[p].parses) =>
           envelope[p] = Success(lastResp[p].body)
      /\ (Is2xx(lastResp[p]) /\ ~lastResp[p].parses) =>
           envelope[p] = Failure(<<"Network error: ", JsonParseMsg>>)

\* a 2xx response whose body does not parse was answered to a request
C6_Witness ==
  \E p \in Procs :
    /\ Is2xx(lastResp[p])
    /\ ~lastResp[p].parses
    /\ envelope[p] = Failure(<<"Network error: ", JsonParseMsg>>)

\* ---- C7
C7_Step ==
  config # Null =>
    /\ config' # Null
    /\ config'.serverUrl = config.serverUrl
    /\ config'.basePath = config.basePath
    /\ config'.username = config.username
    /\ config'.password = config.password
    /\ config'.authToken # config.authToken =>
         /\ config'.authToken \in AccessTokens
         /\ \E p \in Procs : pc[p] = "auth_wait" /\ pc'[p] # "auth_wait"

\* C7: once a configuration is held, no step changes its serverUrl, basePath,
\* username or password, and its authToken changes only in a step in which a
\* token request is answered with a token.
C7_ConfigLoadedOnce == [][C7_Step]_vars

\* ---- C8
\* caller p starts an operation in this step
Starts(p) == budget'[p] # budget[p]

C8_Step ==
  \A p \in Procs :
    (Starts(p) /\ (op'[p] = "moveFile" \/ (op'[p] = "readFile" /\ isUrl'[p]))) =>
      /\ pc'[p] = "idle"
      /\ outcome'[p] = Raised(IF op'[p] = "moveFile" THEN MoveNotImplementedMsg
                              ELSE UrlNotImplementedMsg)
      /\ ~lastReq'[p].sent
      /\ UNCHANGED <<config, authStarted, authDone, requested>>

C9_ReadFileUnwraps ==
  \A p \in Procs :
    ( /\ layer[p] = "facade"
      /\ op[p] = "readFile"
      /\ outcome[p].kind = "returned"
      /\ Is2xx(lastResp[p])
      /\ lastResp[p].parses ) =>
      LET body == lastResp[p].body
      IN outcome[p].val = (IF body.t = "obj" /\ body.data.t # "undef" THEN body.data ELSE body)

\* ---- C10
\* C10: against a configuration with no authToken but with username and
\* password, every token request succeeding, every API request of a facade
\* operation carries a token issued by the token endpoint, whatever the
\* interleaving of the callers.
C10_RequestsCarryToken ==
  ( /\ onlyFacade
    /\ providerChanges = 0
    /\ CompleteCfg(provider)
    /\ NoTokenButCredentials(provider)
    /\ ~authEverFailed ) =>
    \A p \in Procs : lastReq[p].sent => lastReq[p].token \in AccessTokens

====
